---------------------------- MODULE Spec2Model ----------------------------
(* Model of road0a.py: SimpleRouter (parse_yosys, place_cells, route_nets, *)
(* create_manhattan_route, generate_def), place_route and the script that  *)
(* reads netlist.v and writes output.def.                                  *)
(*                                                                         *)
(* Text is modelled as sequences of one-character strings, so that the     *)
(* regular expressions of parse_yosys work on characters.  The netlist is  *)
(* a sequence of statements (module header, assign).  Coordinates are      *)
(* exact rationals [n, d] in lowest terms; int() is truncation.            *)
EXTENDS Integers, Sequences, FiniteSets, TLC

VARIABLES netlist_str, cells, die_width, die_height, pc, err, routes, defs,
          def_content, output_def

\* netlist_str  the text read from netlist.v (lines 213-214), as statements
\* cells        self.cells, an insertion-ordered dict, as the sequence of its values
\* die_width, die_height   the fields set by __init__
\* pc           the position in place_route and the script; err the exception raised
\* routes       the list route_nets returned to the last generate_def call (line 193)
\* defs         the documents returned by the generate_def calls so far (line 202)
\* def_content  the script's variable of line 220 (<<>> while unset)
\* output_def   the content of output.def (<<>> while not written)
vars == <<netlist_str, cells, die_width, die_height, pc, err, routes, defs,
          def_content, output_def>>

(* ------------------------------ bounds --------------------------------- *)
MaxAssigns == 3
MaxExprLen == 4
MaxCells == 10

(* --------------------------- characters -------------------------------- *)
DigitChar == <<"0", "1", "2", "3", "4", "5", "6", "7", "8", "9">>

Digits == {DigitChar[i] : i \in 1..10}

Letters == {"a", "b", "c", "e", "l", "t", "w", "y", "z"}

\* \w of the regular expressions, restricted to the characters in use
WordChars == Letters \cup Digits \cup {"_"}

RECURSIVE Flatten(_)
Flatten(ss) ==
    IF Len(ss) = 0 THEN <<>> ELSE Head(ss) \o Flatten(Tail(ss))

(* --------------------------- rationals --------------------------------- *)
RECURSIVE GCD(_, _)
GCD(a, b) == IF b = 0 THEN a ELSE GCD(b, a % b)

Rat(n, d) == LET g == GCD(n, d) IN [n |-> n \div g, d |-> d \div g]

Zero == Rat(0, 1)

RatDiv(a, k) == Rat(a.n, a.d * k)

RatMul(k, a) == Rat(k * a.n, a.d)

RatAdd(a, b) == Rat(a.n * b.d + b.n * a.d, a.d * b.d)

\* int(x) for x >= 0
Trunc(a) == a.n \div a.d

(* --------------------------- Pin, Cell --------------------------------- *)
Pin(name, is_input, is_output) ==
    [name |-> name, is_input |-> is_input, is_output |-> is_output]

Cell(name, cell_type, pins) ==
    [name |-> name, cell_type |-> cell_type, pins |-> pins,
     width |-> 1, height |-> 1, x |-> Zero, y |-> Zero]

(* --------------------------- parse_yosys ------------------------------- *)
ModuleStmt == [kind |-> "module", target |-> <<"t", "o", "p">>, expr |-> <<>>]

AssignStmt(t, e) == [kind |-> "assign", target |-> t, expr |-> e]

\* variant: any statement is taken for the module header
ModuleMatchLoose(text) == \E i \in 1..Len(text) : text[i].kind \in {"module", "assign"}

\* re.search(r'module\s+(\w+)\((.*?)\);', netlist_str)
ModuleMatch(text) == \E i \in 1..Len(text) : text[i].kind = "module"

\* first alternative of the signal pattern: [ab]\[\d\]
BitRefAt(e, i) ==
    /\ i + 3 <= Len(e)
    /\ e[i] \in {"a", "b"}
    /\ e[i + 1] = "["
    /\ e[i + 2] \in Digits
    /\ e[i + 3] = "]"

\* length of the run of \w characters of e that starts at i
RECURSIVE WordRun(_, _)
WordRun(e, i) ==
    IF i > Len(e) \/ e[i] \notin WordChars THEN 0 ELSE 1 + WordRun(e, i + 1)

\* second alternative: \w+(?<!&)(?<!\|)(?<!\^)(?<!\(), greedy with backtracking
WordLen(e, i) ==
    LET ok == {k \in 1..WordRun(e, i) : e[i + k - 1] \notin {"&", "|", "^", "("}}
    IN  IF ok = {} THEN 0 ELSE CHOOSE k \in ok : \A j \in ok : j <= k

MatchLen(e, i) == IF BitRefAt(e, i) THEN 4 ELSE WordLen(e, i)

\* re.findall(pattern, expression) scanning from position i
RECURSIVE FindAll(_, _)
FindAll(e, i) ==
    IF i > Len(e) THEN <<>>
    ELSE LET m == MatchLen(e, i)
         IN  IF m = 0 THEN FindAll(e, i + 1)
             ELSE <<SubSeq(e, i, i + m - 1)>> \o FindAll(e, i + m)

\* the loop of lines 78-80
InputPins(input_signals) ==
    Flatten([k \in 1..Len(input_signals) |->
        IF input_signals[k] \notin {<<"&">>, <<"|">>, <<"^">>, <<"~">>}
        THEN <<Pin(input_signals[k], TRUE, FALSE)>>
        ELSE <<>>])

CellName(output_wire) == <<"c", "e", "l", "l", "_">> \o output_wire

\* lines 66-82: the cell of one assign statement
AssignCell(output_wire, expression) ==
    Cell(CellName(output_wire), "LOGIC",
         <<Pin(output_wire, FALSE, TRUE)>> \o InputPins(FindAll(expression, 1)))

\* variant: an existing key keeps its first value (setdefault)
DictSetKeepFirst(cs, cell) ==
    IF \E i \in 1..Len(cs) : cs[i].name = cell.name THEN cs ELSE Append(cs, cell)

\* self.cells[cell_name] = cell on an insertion-ordered dict
DictSet(cs, cell) ==
    IF \E i \in 1..Len(cs) : cs[i].name = cell.name
    THEN [i \in 1..Len(cs) |-> IF cs[i].name = cell.name THEN cell ELSE cs[i]]
    ELSE Append(cs, cell)

\* the finditer loop of lines 65-83 over statements k..Len(text); the port sets
\* of lines 47-61 are locals that nothing reads, so they leave no state
RECURSIVE ParseAssigns(_, _, _)
ParseAssigns(text, k, cs) ==
    IF k > Len(text) THEN cs
    ELSE IF text[k].kind = "assign"
         THEN ParseAssigns(text, k + 1,
                           DictSet(cs, AssignCell(text[k].target, text[k].expr)))
         ELSE ParseAssigns(text, k + 1, cs)

(* --------------------------- place_cells ------------------------------- *)
\* math.ceil(math.sqrt(num_cells))
CeilSqrt(n) == CHOOSE s \in 0..n : s * s >= n /\ \A r \in 0..n : r * r >= n => r >= s

\* variant: the row wraps one column late (> instead of >=)
NextSlotLate(current_x, current_y, grid_size) ==
    IF current_x + 1 > grid_size
    THEN <<0, current_y + 1>>
    ELSE <<current_x + 1, current_y>>

\* lines 117-123: the slot after (current_x, current_y)
NextSlot(current_x, current_y, grid_size) ==
    IF current_x + 1 >= grid_size
    THEN <<0, current_y + 1>>
    ELSE <<current_x + 1, current_y>>

\* lines 108-123: the loop over self.cells.values() from the i-th cell on
RECURSIVE PlaceLoop(_, _, _, _, _, _)
PlaceLoop(cs, i, slot, grid_size, grid_width, grid_height) ==
    IF i > Len(cs) THEN cs
    ELSE LET placed == [cs[i] EXCEPT
                 !.x = RatAdd(RatMul(slot[1], grid_width), RatDiv(grid_width, 2)),
                 !.y = RatAdd(RatMul(slot[2], grid_height), RatDiv(grid_height, 2))]
         IN  PlaceLoop([cs EXCEPT ![i] = placed], i + 1,
                       NextSlot(slot[1], slot[2], grid_size),
                       grid_size, grid_width, grid_height)

(* --------------------------- route_nets -------------------------------- *)
\* variant: vertical first, bend at (x1, y2)
CreateManhattanRouteVerticalFirst(start, end) ==
    <<start, <<start[1], end[2]>>, end>>

\* lines 171-175
CreateManhattanRoute(start, end) == <<start, <<end[1], start[2]>>, end>>

\* variant: the direction of the candidate pin is not tested
PinMatchesAnyDirection(pin, target_pin) == target_pin.name = pin.name

\* line 141
PinMatches(pin, target_pin) ==
    target_pin.is_input /\ target_pin.name = pin.name

\* lines 138-148: the routes of one output pin of one cell
TargetRoutes(cs, cell, pin) ==
    Flatten([t \in 1..Len(cs) |->
        Flatten([k \in 1..Len(cs[t].pins) |->
            IF PinMatches(pin, cs[t].pins[k])
            THEN <<[name |-> pin.name,
                    route |-> CreateManhattanRoute(<<cell.x, cell.y>>,
                                                   <<cs[t].x, cs[t].y>>)]>>
            ELSE <<>>])])

RouteNets(cs) ==
    Flatten([c \in 1..Len(cs) |->
        Flatten([p \in 1..Len(cs[c].pins) |->
            IF cs[c].pins[p].is_output
            THEN TargetRoutes(cs, cs[c], cs[c].pins[p])
            ELSE <<>>])])

(* --------------------------- generate_def ------------------------------ *)
Line(tag, name, type, nums) ==
    [tag |-> tag, name |-> name, type |-> type, nums |-> nums]

ComponentLines(cs) ==
    Flatten([i \in 1..Len(cs) |->
        << Line("-", cs[i].name, cs[i].cell_type, <<>>),
           Line("+ PLACED", <<>>, "", <<Trunc(cs[i].x), Trunc(cs[i].y)>>) >>])

PathStr(route) ==
    Flatten([k \in 1..Len(route) |-> <<Trunc(route[k][1]), Trunc(route[k][2])>>])

NetLines(rs) ==
    Flatten([i \in 1..Len(rs) |->
        << Line("-", rs[i].name, "", <<>>),
           Line("+ ROUTED", <<>>, "", PathStr(rs[i].route)) >>])

\* variant: the NETS line declares the number of cells
GenerateDefCellCount(cs, W, H) ==
    LET rs == RouteNets(cs)
    IN  << Line("VERSION 5.8 ;", <<>>, "", <<>>),
           Line("DESIGN top ;", <<>>, "", <<>>),
           Line("UNITS DISTANCE MICRONS 1000 ;", <<>>, "", <<>>),
           Line("DIEAREA", <<>>, "", <<0, 0, W, H>>),
           Line("COMPONENTS", <<>>, "", <<Len(cs)>>) >>
        \o ComponentLines(cs)
        \o << Line("END COMPONENTS", <<>>, "", <<>>),
              Line("NETS", <<>>, "", <<Len(cs)>>) >>
        \o NetLines(rs)
        \o << Line("END NETS", <<>>, "", <<>>),
              Line("END DESIGN", <<>>, "", <<>>) >>

\* lines 177-202
GenerateDef(cs, W, H) ==
    LET rs == RouteNets(cs)
    IN  << Line("VERSION 5.8 ;", <<>>, "", <<>>),
           Line("DESIGN top ;", <<>>, "", <<>>),
           Line("UNITS DISTANCE MICRONS 1000 ;", <<>>, "", <<>>),
           Line("DIEAREA", <<>>, "", <<0, 0, W, H>>),
           Line("COMPONENTS", <<>>, "", <<Len(cs)>>) >>
        \o ComponentLines(cs)
        \o << Line("END COMPONENTS", <<>>, "", <<>>),
              Line("NETS", <<>>, "", <<Len(rs)>>) >>
        \o NetLines(rs)
        \o << Line("END NETS", <<>>, "", <<>>),
              Line("END DESIGN", <<>>, "", <<>>) >>

(* ------------------------------ inputs --------------------------------- *)
SeqsUpTo(S, n) == UNION {[1..k -> S] : k \in 0..n}

RECURSIVE Decimal(_)
Decimal(i) ==
    IF i < 10 THEN <<DigitChar[i + 1]>>
    ELSE Decimal(i \div 10) \o <<DigitChar[(i % 10) + 1]>>

WireName(i) == <<"t">> \o Decimal(i)

Targets == {<<"y">>, <<"z">>, <<"w">>}

SampleExprs == { <<"a">>, <<"y">>, <<"z", "&", "y">>, <<"w", "|", "w">> }

WideExprs == { <<"a">>, <<"t", "1">>, <<"t", "2", "&", "t", "1">> }

ExprAlphabet == {"a", "c", "0", "[", "]", "&"}

\* a few statements over a few wires, colliding targets included
SmallBodies ==
    SeqsUpTo({AssignStmt(t, e) : t \in Targets, e \in SampleExprs}, MaxAssigns)

\* many cells: n assigns with pairwise distinct targets
WideBodies ==
    {[i \in 1..n |-> AssignStmt(WireName(i), e)] : n \in 0..MaxCells, e \in WideExprs}

\* one assign with an arbitrary expression
ExprBodies ==
    {<<AssignStmt(<<"y">>, e)>> : e \in SeqsUpTo(ExprAlphabet, MaxExprLen) \ {<<>>}}

Bodies == SmallBodies \cup WideBodies \cup ExprBodies

Netlists == Bodies \cup {<<ModuleStmt>> \o b : b \in Bodies}

(* --------------------------- the program ------------------------------- *)
\* lines 213-214 and SimpleRouter.__init__
Init ==
    /\ netlist_str \in Netlists
    /\ cells = <<>>
    /\ die_width = 100
    /\ die_height = 100
    /\ pc = "start"
    /\ err = "none"
    /\ routes = <<>>
    /\ defs = <<>>
    /\ def_content = <<>>
    /\ output_def = <<>>

ParseYosys ==
    /\ pc = "start"
    /\ ModuleMatch(netlist_str)
    /\ cells' = ParseAssigns(netlist_str, 1, cells)
    /\ pc' = "parsed"
    /\ UNCHANGED <<netlist_str, die_width, die_height, err, routes, defs,
                   def_content, output_def>>

ParseYosysRaises ==
    /\ pc = "start"
    /\ ~ModuleMatch(netlist_str)
    /\ pc' = "failed"
    /\ err' = "ValueError"
    /\ UNCHANGED <<netlist_str, cells, die_width, die_height, routes, defs,
                   def_content, output_def>>

PlaceCells ==
    /\ pc = "parsed"
    /\ LET grid_size == CeilSqrt(Len(cells))
       IN  /\ grid_size # 0
           /\ cells' = PlaceLoop(cells, 1, <<0, 0>>, grid_size,
                                 RatDiv(Rat(die_width, 1), grid_size),
                                 RatDiv(Rat(die_height, 1), grid_size))
    /\ pc' = "placed"
    /\ UNCHANGED <<netlist_str, die_width, die_height, err, routes, defs,
                   def_content, output_def>>

\* line 104 with grid_size = 0
PlaceCellsRaises ==
    /\ pc = "parsed"
    /\ CeilSqrt(Len(cells)) = 0
    /\ pc' = "failed"
    /\ err' = "ZeroDivisionError"
    /\ UNCHANGED <<netlist_str, cells, die_width, die_height, routes, defs,
                   def_content, output_def>>

\* variant: generate_def stores the truncated coordinates back into the cells
PlaceRouteGenerateDefTruncating ==
    /\ pc = "placed"
    /\ routes' = RouteNets(cells)
    /\ defs' = Append(defs, GenerateDef(cells, die_width, die_height))
    /\ cells' = [i \in 1..Len(cells) |->
                    [cells[i] EXCEPT !.x = Rat(Trunc(cells[i].x), 1),
                                     !.y = Rat(Trunc(cells[i].y), 1)]]
    /\ pc' = "returned"
    /\ UNCHANGED <<netlist_str, die_width, die_height, err, def_content,
                   output_def>>

\* line 209: the result is discarded; defs records what each call returned,
\* routes the local list of line 193
PlaceRouteGenerateDef ==
    /\ pc = "placed"
    /\ routes' = RouteNets(cells)
    /\ defs' = Append(defs, GenerateDef(cells, die_width, die_height))
    /\ pc' = "returned"
    /\ UNCHANGED <<netlist_str, cells, die_width, die_height, err, def_content,
                   output_def>>

\* line 220
ScriptGenerateDef ==
    /\ pc = "returned"
    /\ routes' = RouteNets(cells)
    /\ defs' = Append(defs, GenerateDef(cells, die_width, die_height))
    /\ def_content' = <<GenerateDef(cells, die_width, die_height)>>
    /\ pc' = "serialized"
    /\ UNCHANGED <<netlist_str, cells, die_width, die_height, err, output_def>>

\* lines 221-222
WriteOutput ==
    /\ pc = "serialized"
    /\ output_def' = def_content
    /\ pc' = "done"
    /\ UNCHANGED <<netlist_str, cells, die_width, die_height, err, routes, defs,
                   def_content>>

Next ==
    \/ ParseYosys
    \/ ParseYosysRaises
    \/ PlaceCells
    \/ PlaceCellsRaises
    \/ PlaceRouteGenerateDef
    \/ ScriptGenerateDef
    \/ WriteOutput

Spec == Init /\ [][Next]_vars

(* ------------------------- checked properties -------------------------- *)
HasHeader == \E i \in DOMAIN netlist_str : netlist_str[i].kind = "module"

AssignIdx == {k \in DOMAIN netlist_str : netlist_str[k].kind = "assign"}

AssignTargets == {netlist_str[k].target : k \in AssignIdx}

\* the last assign statement of a target
IsLastAssign(k) ==
    /\ k \in AssignIdx
    /\ \A j \in AssignIdx : netlist_str[j].target = netlist_str[k].target => j <= k

Parsed ==
    \/ pc \in {"parsed", "placed", "returned", "serialized", "done"}
    \/ pc = "failed" /\ err # "ValueError"

Placed == pc \in {"placed", "returned", "serialized", "done"}

Routed == pc \in {"returned", "serialized", "done"}

Coord(c) == <<c.x, c.y>>

\* the s with (s-1)^2 < n <= s^2, for n >= 1
Side(n) == CHOOSE s \in 1..n : (s - 1) * (s - 1) < n /\ n <= s * s

\* all (cell, output pin, cell, input pin) with the same pin name
PinPairs ==
    UNION {{<<c, p, t, k>> : p \in {p \in DOMAIN cells[c].pins : cells[c].pins[p].is_output},
                            k \in {k \in DOMAIN cells[t].pins : cells[t].pins[k].is_input}}
           : c \in DOMAIN cells, t \in DOMAIN cells}

MatchingPairs ==
    {q \in PinPairs : cells[q[1]].pins[q[2]].name = cells[q[3]].pins[q[4]].name}

PinNames == UNION {{cells[c].pins[p].name : p \in DOMAIN cells[c].pins} : c \in DOMAIN cells}

AllDocs ==
    {defs[i] : i \in DOMAIN defs}
        \cup {def_content[i] : i \in DOMAIN def_content}
        \cup {output_def[i] : i \in DOMAIN output_def}

TagIdx(d, tag) == CHOOSE i \in DOMAIN d : d[i].tag = tag

Entries(d, lo, hi) == SelectSeq(SubSeq(d, lo + 1, hi - 1), LAMBDA l : l.tag = "-")

\* C1: for n >= 1 cells, place_cells uses side = ceil(sqrt(n)) and puts the
\* i-th cell at the centre of slot (i mod side, i div side); the coordinates
\* are pairwise distinct and inside [0, die_width) x [0, die_height).
C1_GridPlacement ==
    (Placed /\ Len(cells) >= 1) =>
        LET n == Len(cells)
            side == Side(n)
        IN  /\ \A i \in 1..n :
                  LET col == (i - 1) % side
                      row == (i - 1) \div side
                      x == cells[i].x
                      y == cells[i].y
                  IN  /\ row < side
                      /\ x.n * 2 * side = (2 * col + 1) * die_width * x.d
                      /\ y.n * 2 * side = (2 * row + 1) * die_height * y.d
                      /\ 0 <= x.n /\ x.n < die_width * x.d
                      /\ 0 <= y.n /\ y.n < die_height * y.d
            /\ \A i, j \in 1..n : i # j => Coord(cells[i]) # Coord(cells[j])

C1_Witness ==
    /\ pc = "placed"
    /\ Len(cells) = 10
    /\ Trunc(cells[10].x) = 37
    /\ Trunc(cells[10].y) = 62

\* C2: a netlist with a module header and no assign statement runs through
\* placement, routing and serialization (zero routes, COMPONENTS 0, NETS 0),
\* and the pipeline fails at extraction only.
C2_EmptyDesignCompletes ==
    /\ pc = "failed" => err = "ValueError"
    /\ (HasHeader /\ AssignIdx = {}) =>
          /\ pc # "failed"
          /\ Routed => routes = <<>>
          /\ \A d \in AllDocs :
                /\ d[TagIdx(d, "COMPONENTS")].nums = <<0>>
                /\ d[TagIdx(d, "NETS")].nums = <<0>>

\* C3: without a module header parse_yosys raises before any cell is added,
\* no later stage runs and no document is produced or written.
C3_MalformedAborts ==
    ~HasHeader =>
        /\ pc \in {"start", "failed"}
        /\ pc = "failed" => err = "ValueError"
        /\ cells = <<>>
        /\ routes = <<>>
        /\ defs = <<>>
        /\ def_content = <<>>
        /\ output_def = <<>>

C3_Witness ==
    /\ ~HasHeader
    /\ AssignIdx # {}
    /\ pc = "failed"
    /\ err = "ValueError"

\* C4: route_nets returns exactly one route per pair (output pin, input pin)
\* with equal names over all cells, same cell included, keyed by that name,
\* and no other route.
C4_OneRoutePerPinPair ==
    Routed =>
        /\ Len(routes) = Cardinality(MatchingPairs)
        /\ \A c, t \in DOMAIN cells : \A nm \in PinNames :
              Cardinality({i \in DOMAIN routes :
                              /\ routes[i].name = nm
                              /\ routes[i].route[1] = Coord(cells[c])
                              /\ routes[i].route[3] = Coord(cells[t])})
              = Cardinality({q \in MatchingPairs :
                              /\ q[1] = c
                              /\ q[3] = t
                              /\ cells[c].pins[q[2]].name = nm})

\* a self-match and an output matched by input pins of several cells
C4_Witness ==
    /\ Routed
    /\ \E i \in DOMAIN routes : routes[i].route[1] = routes[i].route[3]
    /\ \E i, j \in DOMAIN routes :
          /\ routes[i].name = routes[j].name
          /\ routes[i].route[3] # routes[j].route[3]

\* C5: every route is [(x1,y1), (x2,y1), (x2,y2)] from the coordinate of the
\* cell owning the output pin to that of the cell owning the input pin.
C5_ManhattanShape ==
    Routed =>
        \A i \in DOMAIN routes :
            LET r == routes[i].route
            IN  /\ Len(r) = 3
                /\ r[2] = <<r[3][1], r[1][2]>>
                /\ \E q \in MatchingPairs :
                      /\ cells[q[1]].pins[q[2]].name = routes[i].name
                      /\ r[1] = Coord(cells[q[1]])
                      /\ r[3] = Coord(cells[q[3]])

\* a route whose ends differ in x and in y
C5_Witness ==
    /\ Routed
    /\ \E i \in DOMAIN routes :
          /\ routes[i].route[1][1] # routes[i].route[3][1]
          /\ routes[i].route[1][2] # routes[i].route[3][2]

GenerateDefKeepsState ==
    pc \in {"placed", "returned"} =>
        /\ cells' = cells
        /\ die_width' = die_width
        /\ die_height' = die_height
        /\ netlist_str' = netlist_str
        /\ \A i, j \in DOMAIN defs' : defs'[i] = defs'[j]
        /\ \A i \in DOMAIN def_content' : def_content'[i] = defs'[1]

\* C6: a generate_def call changes no cell, pin, coordinate or die dimension,
\* and all documents returned so far are identical.
C6_GenerateDefIdempotent == [][GenerateDefKeepsState]_vars

C6_Witness ==
    /\ pc = "serialized"
    /\ Len(defs) = 2
    /\ Len(routes) >= 2
    /\ \E i \in DOMAIN cells : cells[i].x.d # 1

\* C7: in every document the COMPONENTS count equals the number of component
\* entries (one per cell, in cell order) and the NETS count equals the number of
\* net entries (one per matching pin pair, in route order).
C7_CountsMatchEntries ==
    \A d \in AllDocs :
        LET c0 == TagIdx(d, "COMPONENTS")
            c1 == TagIdx(d, "END COMPONENTS")
            n0 == TagIdx(d, "NETS")
            n1 == TagIdx(d, "END NETS")
            comps == Entries(d, c0, c1)
            nets == Entries(d, n0, n1)
        IN  /\ c0 < c1 /\ c1 < n0 /\ n0 < n1
            /\ d[c0].nums = <<Len(comps)>>
            /\ Len(comps) = Len(cells)
            /\ \A i \in DOMAIN comps :
                  comps[i].name = cells[i].name /\ comps[i].type = cells[i].cell_type
            /\ d[n0].nums = <<Len(nets)>>
            /\ Len(nets) = Cardinality(MatchingPairs)
            /\ Len(nets) = Len(routes)
            /\ \A i \in DOMAIN nets : nets[i].name = routes[i].name

C7_Witness ==
    /\ pc = "done"
    /\ \E d \in AllDocs :
          /\ d[TagIdx(d, "COMPONENTS")].nums[1] >= 2
          /\ d[TagIdx(d, "NETS")].nums[1] >= 2
          /\ d[TagIdx(d, "NETS")].nums[1] # d[TagIdx(d, "COMPONENTS")].nums[1]

RECURSIVE Dedup(_)
Dedup(s) ==
    IF Len(s) = 0 THEN <<>>
    ELSE LET init == Dedup(SubSeq(s, 1, Len(s) - 1))
             last == s[Len(s)]
         IN  IF \E i \in DOMAIN init : init[i] = last THEN init ELSE Append(init, last)

\* every token of the expression starts with a letter
OnlyIdentifiers(e) ==
    \A t \in {FindAll(e, 1)[h] : h \in DOMAIN FindAll(e, 1)} : t[1] \in Letters

\* C8: the cell of an assign has one output pin named after the target followed
\* by one input pin per distinct identifier of the expression, first-seen order.
C8_OnePinPerDistinctIdentifier ==
    Parsed =>
        \A k \in AssignIdx : (IsLastAssign(k) /\ OnlyIdentifiers(netlist_str[k].expr)) =>
            \E i \in DOMAIN cells :
                LET ids == Dedup(FindAll(netlist_str[k].expr, 1))
                IN  /\ cells[i].name = CellName(netlist_str[k].target)
                    /\ cells[i].pins =
                          <<Pin(netlist_str[k].target, FALSE, TRUE)>>
                              \o [j \in DOMAIN ids |-> Pin(ids[j], TRUE, FALSE)]

\* C9: with a module header, parse_yosys raises nothing and leaves one cell per
\* distinct assign target, holding the pins of the last assign of that target;
\* no two cells own an output pin of the same name and all routes of one name
\* start at the same cell.
C9_OneCellPerTarget ==
    HasHeader =>
        /\ pc = "failed" => err # "ValueError"
        /\ Parsed =>
              /\ Len(cells) = Cardinality(AssignTargets)
              /\ \A k \in AssignIdx : IsLastAssign(k) =>
                    \E i \in DOMAIN cells :
                        /\ cells[i].name = CellName(netlist_str[k].target)
                        /\ cells[i].pins[1] = Pin(netlist_str[k].target, FALSE, TRUE)
                        /\ [j \in 1..(Len(cells[i].pins) - 1) |-> cells[i].pins[j + 1].name]
                              = FindAll(netlist_str[k].expr, 1)
              /\ \A i, j \in DOMAIN cells : i # j =>
                    \A p \in DOMAIN cells[i].pins, q \in DOMAIN cells[j].pins :
                        (cells[i].pins[p].is_output /\ cells[j].pins[q].is_output)
                            => cells[i].pins[p].name # cells[j].pins[q].name
        /\ Routed =>
              \A i, j \in DOMAIN routes :
                  routes[i].name = routes[j].name => routes[i].route[1] = routes[j].route[1]

\* two assigns of one target with different expressions, both read downstream
C9_Witness ==
    /\ HasHeader
    /\ Routed
    /\ Len(routes) >= 2
    /\ \E j, k \in AssignIdx :
          /\ j < k
          /\ netlist_str[j].target = netlist_str[k].target
          /\ FindAll(netlist_str[j].expr, 1) # FindAll(netlist_str[k].expr, 1)

\* e[i..j] is a reference <name>[<index>]: a whole word, "[", digits, "]"
IsBitRef(e, i, j) ==
    /\ 1 <= i /\ j <= Len(e)
    /\ e[i] \in Letters
    /\ i = 1 \/ e[i - 1] \notin WordChars
    /\ \E m \in (i + 1)..(j - 2) :
          /\ \A h \in i..(m - 1) : e[h] \in WordChars
          /\ e[m] = "["
          /\ \A h \in (m + 1)..(j - 1) : e[h] \in Digits
          /\ e[j] = "]"

\* C10: every bit-indexed reference of an assign expression is one input pin
\* named by the whole reference.
C10_BitRefsAtomic ==
    Parsed =>
        \A k \in AssignIdx : IsLastAssign(k) =>
            LET e == netlist_str[k].expr
            IN  \A i, j \in DOMAIN e : IsBitRef(e, i, j) =>
                    \E c \in DOMAIN cells :
                        /\ cells[c].name = CellName(netlist_str[k].target)
                        /\ \E p \in DOMAIN cells[c].pins :
                              /\ cells[c].pins[p].is_input
                              /\ cells[c].pins[p].name = SubSeq(e, i, j)

=============================================================================
